---- MODULE Spec2Model ----
(***************************************************************************)
(* Model of the bank-statement extraction pipeline of                      *)
(* backend/src/index.js: the POST /parse-bank-statement handler, its page   *)
(* loop, the account-identity resolution and the transaction aggregation.   *)
(*                                                                         *)
(* One action per suspension point of the async handler: the code between   *)
(* two awaits runs to completion, so each action covers an await together   *)
(* with all the synchronous code that follows it up to the next await.      *)
(*                                                                         *)
(* Texts are sequences of tokens [t |-> kind, v |-> characters]; white      *)
(* space is a token of its own.  Account numbers handed back by the         *)
(* extraction service are ordinary account-number strings: none of them is  *)
(* the name of a property that a JavaScript object inherits.                *)
(***************************************************************************)
EXTENDS Integers, Sequences, FiniteSets, TLC

VARIABLES
    pc,                  \* position of the handler
    hasFile,             \* req.file is present
    pages,               \* number of single-page documents (pages.length)
    i,                   \* loop index, 1-based (page i is pages[i - 1])
    accounts,            \* the accounts object, own properties in insertion order
    activeAccountNumber, \* identifier resolved for the last resolved page
    pageText,            \* const pageText of the current iteration
    meta,                \* const meta of the current iteration
    accountNumber,       \* let accountNumber of the current iteration
    response,            \* what res.status(..).json(..) sent
    calls,               \* history: external calls made, in order
    pageLog,             \* history: what each page went through
    txnText,             \* const txnText of the current iteration
    input,               \* argument of a helper function applied on its own
    output,              \* what the helper function returned or threw
    state,               \* the AppState kept by useReducer(appReducer, initialState)
    runs                 \* the invocations of startProcessing that are under way

vars == <<pc, hasFile, pages, i, accounts, activeAccountNumber, pageText, meta,
          accountNumber, response, calls, pageLog, txnText, input, output,
          state, runs>>

-----------------------------------------------------------------------------
(* Bounds *)

MaxPages == 2
MaxRows == 2
MaxStringLen == 2   \* characters of a JSON string value
MaxRawLen == 3      \* characters of a reply that is no JSON
MaxTextLen == 3     \* tokens of a page text given to the windowing

-----------------------------------------------------------------------------
(* JavaScript values *)

null == "<null>"
undefined == "<undefined>"

\* ToBoolean of a string-or-missing value
Truthy(v) == v \notin {"", null, undefined}

\* a || b
Or(a, b) == IF Truthy(a) THEN a ELSE b

-----------------------------------------------------------------------------
(* Texts *)

Tok(t, v) == [t |-> t, v |-> v]

Ws == Tok("ws", " ")
Nl == Tok("ws", "\n")
Word == Tok("word", "Balance")
AcctNoLabel == Tok("acctNo", "Account No")
SavingsLabel == Tok("savingsAc", "Savings A/c")
AccountWord == Tok("account", "Account")
Colon == Tok("sep", ":")
Header == Tok("header", "Transaction Details")
Num5 == Tok("digits", "55555")
Num9 == Tok("digits", "900000009")
Num12 == Tok("digits", "120000000012")
Num12b == Tok("digits", "120000000099")

IsWs(tok) == tok.t = "ws"

RECURSIVE TrimStart(_)
TrimStart(s) ==
    IF s # <<>> /\ IsWs(Head(s)) THEN TrimStart(Tail(s)) ELSE s

RECURSIVE TrimEnd(_)
TrimEnd(s) ==
    IF s # <<>> /\ IsWs(s[Len(s)]) THEN TrimEnd(SubSeq(s, 1, Len(s) - 1)) ELSE s

\* String.prototype.trim
Trim(s) == TrimStart(TrimEnd(s))

\* variant: no text counts as empty
NeverFalsyText(text) == FALSE

\* !text: the empty string is the only falsy string
IsFalsyText(text) == text = <<>>

\* Array.prototype.join("\n") over the texts of the recognised regions
RECURSIVE JoinNl(_)
JoinNl(regions) ==
    IF regions = <<>> THEN <<>>
    ELSE IF Len(regions) = 1 THEN regions[1]
    ELSE regions[1] \o <<Nl>> \o JoinNl(Tail(regions))

-----------------------------------------------------------------------------
(* extractAccountNumberFromText *)

\* the digits a (\d{lo,hi}) group captures from a token, or null
Digits(tok, lo, hi) ==
    IF tok.t = "digits" /\ Len(tok.v) >= lo /\ Len(tok.v) <= hi THEN tok.v ELSE null

\* \s* stands between all elements of the labelled patterns
NoWs(text) == SelectSeq(text, LAMBDA tok : ~IsWs(tok))

\* <label> \s* [:\-]? \s* (\d{8,18}) starting at position p of s
AfterLabel(s, p, sepRequired) ==
    IF p + 1 <= Len(s) /\ ~sepRequired /\ Truthy(Digits(s[p + 1], 8, 18))
    THEN Digits(s[p + 1], 8, 18)
    ELSE IF p + 2 <= Len(s) /\ s[p + 1].t = "sep" /\ Truthy(Digits(s[p + 2], 8, 18))
    THEN Digits(s[p + 2], 8, 18)
    ELSE null

\* text.match(pattern) for a labelled pattern: the leftmost match's group 1
MatchLabelled(text, label, sepRequired) ==
    LET s == NoWs(text)
        hits == {p \in 1..Len(s) :
                    s[p].t = label /\ Truthy(AfterLabel(s, p, sepRequired))}
    IN  IF hits = {} THEN null
        ELSE AfterLabel(s, CHOOSE p \in hits : \A q \in hits : p <= q, sepRequired)

\* text.match(/\b(\d{10,18})\b/): the leftmost stand-alone run of 10..18 digits
MatchStandalone(text) ==
    LET hits == {p \in 1..Len(text) : Truthy(Digits(text[p], 10, 18))}
    IN  IF hits = {} THEN null
        ELSE Digits(text[CHOOSE p \in hits : \A q \in hits : p <= q], 10, 18)

\* the four patterns, tried in order; the first pattern that matches wins
extractAccountNumberFromText(text) ==
    Or(MatchLabelled(text, "acctNo", FALSE),
       Or(MatchLabelled(text, "savingsAc", FALSE),
          Or(MatchLabelled(text, "account", TRUE),
             MatchStandalone(text))))

-----------------------------------------------------------------------------
(* extractTransactionBlock *)

\* the section-header phrases, lower-cased, in the order of the patterns array
patterns ==
    <<"statement of transactions", "transaction details", "transaction history",
      "account activity", "transactions", "date description", "date particulars",
      "value date">>

\* String.prototype.toLowerCase on the characters of a token
toLowerCase(v) ==
    CASE v = "Transaction Details" -> "transaction details"
      [] v = "TRANSACTIONS" -> "transactions"
      [] v = "Value Date" -> "value date"
      [] OTHER -> v

\* variant: the last occurrence of the phrase
LastOccurrenceOf(text, pattern) ==
    LET hits == {p \in 1..Len(text) : toLowerCase(text[p].v) = pattern}
    IN  IF hits = {} THEN 0 ELSE CHOOSE p \in hits : \A q \in hits : p >= q

\* text.toLowerCase().indexOf(pattern), 0 when the phrase does not occur
IndexOf(text, pattern) ==
    LET hits == {p \in 1..Len(text) : toLowerCase(text[p].v) = pattern}
    IN  IF hits = {} THEN 0 ELSE CHOOSE p \in hits : \A q \in hits : p <= q

\* variant: without a header there is no block
RECURSIVE BlockOrNothing(_, _)
BlockOrNothing(text, k) ==
    IF k > Len(patterns) THEN <<>>
    ELSE IF IndexOf(text, patterns[k]) # 0
    THEN SubSeq(text, IndexOf(text, patterns[k]), Len(text))
    ELSE BlockOrNothing(text, k + 1)

\* the first pattern of the list that occurs decides where the block starts
RECURSIVE BlockFrom(_, _)
BlockFrom(text, k) ==
    IF k > Len(patterns) THEN text
    ELSE IF IndexOf(text, patterns[k]) # 0
    THEN SubSeq(text, IndexOf(text, patterns[k]), Len(text))
    ELSE BlockFrom(text, k + 1)

extractTransactionBlock(text) == BlockFrom(text, 1)

-----------------------------------------------------------------------------
(* Replies of the external services *)

\* what the OCR service can answer for a page: ParsedResults is missing, or it
\* lists the text of each recognised region
NoParsedResults == [hasParsedResults |-> FALSE, ParsedResults |-> <<>>]
Parsed(regions) == [hasParsedResults |-> TRUE, ParsedResults |-> regions]

OcrReplies ==
    { NoParsedResults,
      Parsed(<< <<Ws, Nl>> >>),
      Parsed(<< <<Ws, Word, Num5>>, <<Word, Ws>> >>),
      Parsed(<< <<Word, Header, Num9>> >>),
      Parsed(<< <<AcctNoLabel, Colon, Ws, Num12>>, <<Header, Word>> >>),
      Parsed(<< <<Num12b, Nl, SavingsLabel, Ws, Num12>> >>) }

\* ocrRes.data.ParsedResults?.map((r) => r.ParsedText).join("\n").trim() || ""
PageTextOf(data) ==
    IF data.hasParsedResults THEN Trim(JoinNl(data.ParsedResults)) ELSE <<>>

\* the metadata objects the extraction service can answer with; a field the
\* reply leaves out is undefined
MetaFields ==
    { [bankName |-> "Alpha Bank", accountHolderName |-> "A Holder",
       accountType |-> "Savings", currency |-> "INR",
       statementStartDate |-> "2024-01-01", statementEndDate |-> "2024-01-31"],
      [bankName |-> undefined, accountHolderName |-> "B Holder",
       accountType |-> undefined, currency |-> "USD",
       statementStartDate |-> "", statementEndDate |-> "2024-02-29"] }

MetaAccountNumbers == {"", "999"}

MetaOf(a, f) ==
    [accountNumber |-> a, bankName |-> f.bankName,
     accountHolderName |-> f.accountHolderName, accountType |-> f.accountType,
     currency |-> f.currency, statementStartDate |-> f.statementStartDate,
     statementEndDate |-> f.statementEndDate]

MetaReplies == {MetaOf(a, f) : a \in MetaAccountNumbers, f \in MetaFields}

\* no meta in scope
NoMeta ==
    [accountNumber |-> undefined, bankName |-> undefined,
     accountHolderName |-> undefined, accountType |-> undefined,
     currency |-> undefined, statementStartDate |-> undefined,
     statementEndDate |-> undefined]

\* row j that the extractor reads on page p; rows are pairwise distinct
TransactionRow(p, j) ==
    [date |-> "", description |-> "row " \o ToString(j) \o " of page " \o ToString(p),
     debitAmount |-> "", creditAmount |-> "", runningBalance |-> ""]

RowsOf(p, n) == [j \in 1..n |-> TransactionRow(p, j)]

\* the transaction objects the extraction service can answer with for page p:
\* transactions is an array of 0..MaxRows rows, or it is not an array
TxnReplies(p) ==
    {[isArray |-> FALSE, transactions |-> <<>>]}
        \cup {[isArray |-> TRUE, transactions |-> RowsOf(p, n)] : n \in 0..MaxRows}

\* values Date.now() can return
TimeValues == {1700000001, 1700000002}

\* ways a callLLM + parseLLMJSON pair can throw
LlmFailures == {"refused", "failed", "unknownFormat", "noBraces", "badJson"}

-----------------------------------------------------------------------------
(* Errors *)

Err(text, label, page) == [text |-> text, label |-> label, page |-> page]

NoErr == Err("", "", 0)

\* variant: a failed call is reported without its label and page
LlmErrorNoLabel(kind, label, p) ==
    CASE kind = "refused" ->
            Err("LLM server not running. Start Ollama with: ollama serve", "", 0)
      [] kind = "failed" -> Err("LLM call failed", "", 0)
      [] kind = "unknownFormat" ->
            Err("LLM call failed: Unknown LLM response format", label, p)
      [] kind = "noBraces" -> Err("invalid JSON", label, p)
      [] OTHER -> Err("invalid JSON - parse error", label, p)

\* variant: a refused connection is reported like any other failed call
LlmErrorRefusedAsFailed(kind, label, p) ==
    CASE kind \in {"refused", "failed"} -> Err("LLM call failed", label, p)
      [] kind = "unknownFormat" ->
            Err("LLM call failed: Unknown LLM response format", label, p)
      [] kind = "noBraces" -> Err("invalid JSON", label, p)
      [] OTHER -> Err("invalid JSON - parse error", label, p)

\* message of the error a failing callLLM / parseLLMJSON throws for `label page p`
LlmError(kind, label, p) ==
    CASE kind = "refused" ->
            Err("LLM server not running. Start Ollama with: ollama serve", "", 0)
      [] kind = "failed" -> Err("LLM call failed", label, p)
      [] kind = "unknownFormat" ->
            Err("LLM call failed: Unknown LLM response format", label, p)
      [] kind = "noBraces" -> Err("invalid JSON", label, p)
      [] OTHER -> Err("invalid JSON - parse error", label, p)

\* the error thrown when ocrRes.data.IsErroredOnProcessing
OcrError(p) == Err("OCR failed", "", p)

-----------------------------------------------------------------------------
(* The accounts object *)

\* accounts[k] is set
HasAccount(accs, k) == \E n \in 1..Len(accs) : accs[n].accountNumber = k

\* position of accounts[k] among the own properties
AccountAt(accs, k) == CHOOSE n \in 1..Len(accs) : accs[n].accountNumber = k

AccountKeys(accs) == {accs[n].accountNumber : n \in 1..Len(accs)}

\* the object literal of the creation branch
NewAccount(k, m) ==
    [accountNumber |-> k,
     bankName |-> Or(m.bankName, ""),
     accountHolderName |-> Or(m.accountHolderName, ""),
     accountType |-> Or(m.accountType, ""),
     currency |-> Or(m.currency, ""),
     statementStartDate |-> Or(m.statementStartDate, ""),
     statementEndDate |-> Or(m.statementEndDate, ""),
     transactions |-> <<>>]

\* variant: an existing account takes the metadata of the page
CreateOrOverwrite(accs, k, m) ==
    IF ~HasAccount(accs, k) THEN Append(accs, NewAccount(k, m))
    ELSE [accs EXCEPT ![AccountAt(accs, k)] =
            [NewAccount(k, m) EXCEPT !.transactions = accs[AccountAt(accs, k)].transactions]]

\* variant: every page creates an account
CreateAlways(accs, k, m) == Append(accs, NewAccount(k, m))

\* variant: a new account starts a new map
CreateInFreshMap(accs, k, m) ==
    IF ~HasAccount(accs, k) THEN <<NewAccount(k, m)>> ELSE accs

\* if (!accounts[accountNumber]) accounts[accountNumber] = {...}
CreateIfAbsent(accs, k, m) ==
    IF ~HasAccount(accs, k) THEN Append(accs, NewAccount(k, m)) ELSE accs

\* variant: the rows are put in front of the list
PushFront(accs, k, txns) ==
    IF txns.isArray
    THEN [accs EXCEPT ![AccountAt(accs, k)].transactions = txns.transactions \o @]
    ELSE accs

\* variant: the rows replace the list
PushReplace(accs, k, txns) ==
    IF txns.isArray
    THEN [accs EXCEPT ![AccountAt(accs, k)].transactions = txns.transactions]
    ELSE accs

\* variant: the rows go to the first account of the map
PushToFirstAccount(accs, k, txns) ==
    IF txns.isArray
    THEN [accs EXCEPT ![1].transactions = @ \o txns.transactions]
    ELSE accs

\* if (Array.isArray(txns.transactions))
\*     accounts[accountNumber].transactions.push(...txns.transactions)
PushTransactions(accs, k, txns) ==
    IF txns.isArray
    THEN [accs EXCEPT ![AccountAt(accs, k)].transactions = @ \o txns.transactions]
    ELSE accs

\* the number an integer-like property name denotes, -1 for any other name
ArrayIndex(k) ==
    CASE k = "999" -> 999
      [] k = "123" -> 123
      [] OTHER -> -1

\* Object.values: integer-like names first in ascending numeric order, then the
\* other names in insertion order
RECURSIVE SortedIndexKeys(_)
SortedIndexKeys(ks) ==
    IF ks = {} THEN <<>>
    ELSE LET k == CHOOSE x \in ks : \A y \in ks : ArrayIndex(x) <= ArrayIndex(y)
         IN  <<k>> \o SortedIndexKeys(ks \ {k})

ObjectValues(accs) ==
    LET idx == SortedIndexKeys({k \in AccountKeys(accs) : ArrayIndex(k) >= 0})
    IN  [n \in 1..Len(idx) |-> accs[AccountAt(accs, idx[n])]]
            \o SelectSeq(accs, LAMBDA a : ArrayIndex(a.accountNumber) < 0)

-----------------------------------------------------------------------------
(* Account identity resolution *)

\* variant: the temporary identifier is a fixed account number
SyntheticIdFixed(m, now) == "999"

\* `UNKNOWN-${meta.bankName || "BANK"}-${Date.now()}`
SyntheticId(m, now) == "UNKNOWN-" \o Or(m.bankName, "BANK") \o "-" \o ToString(now)

\* variant: the identifier of the preceding page is not carried over
ResolveNoContinuation(m, text, active, now) ==
    LET a == Or(m.accountNumber, extractAccountNumberFromText(text))
    IN  IF ~Truthy(a) THEN SyntheticId(m, now) ELSE a

\* variant: the temporary identifier is preferred to the carried identifier
ResolveFallbackFirst(m, text, active, now) ==
    LET a == Or(m.accountNumber, extractAccountNumberFromText(text))
    IN  IF ~Truthy(a) THEN Or(SyntheticId(m, now), active) ELSE a

\* variant: the identifier is carried over from the directly preceding page only
ResolveFromPrecedingPage(m, text, active, now) ==
    LET carried == IF pageLog # <<>> /\ pageLog[Len(pageLog)].empty
                   THEN null ELSE active
        a == Or(Or(m.accountNumber, extractAccountNumberFromText(text)), carried)
    IN  IF ~Truthy(a) THEN SyntheticId(m, now) ELSE a

\* variant: the text match is preferred to the metadata
ResolveTextFirst(m, text, active, now) ==
    LET a == Or(Or(extractAccountNumberFromText(text), m.accountNumber), active)
    IN  IF ~Truthy(a) THEN SyntheticId(m, now) ELSE a

\* meta.accountNumber || extractAccountNumberFromText(pageText) || activeAccountNumber,
\* and the temporary identifier when that is still falsy
ResolveAccountNumber(m, text, active, now) ==
    LET a == Or(Or(m.accountNumber, extractAccountNumberFromText(text)), active)
    IN  IF ~Truthy(a) THEN SyntheticId(m, now) ELSE a

-----------------------------------------------------------------------------
(* The handler of POST /parse-bank-statement *)

fileName == "statement.pdf"

NoResponse == [status |-> 0, success |-> FALSE, fileName |-> "", accounts |-> <<>>,
               error |-> NoErr]

\* res.json({ success: true, fileName, accounts: Object.values(accounts) })
SuccessBody(accs) ==
    [status |-> 200, success |-> TRUE, fileName |-> fileName,
     accounts |-> ObjectValues(accs), error |-> NoErr]

\* res.status(500).json({ error: err.message, stack: err.stack })
ErrorBody(err) ==
    [status |-> 500, success |-> FALSE, fileName |-> "", accounts |-> <<>>,
     error |-> err]

\* res.status(400).json({ error: "File missing" })
FileMissingBody ==
    [status |-> 400, success |-> FALSE, fileName |-> "", accounts |-> <<>>,
     error |-> Err("File missing", "", 0)]

Call(kind, p) == [kind |-> kind, page |-> p]

\* history entry of a page whose text was empty
Skipped(p) ==
    [page |-> p, empty |-> TRUE, metaAccountNumber |-> undefined,
     textAccountNumber |-> null, resolved |-> null, created |-> FALSE,
     txnDone |-> FALSE, isArray |-> FALSE, rows |-> <<>>]

\* history entry of a page with text: the account number of its metadata reply,
\* the one matched in its text, the identifier it resolved to and whether it
\* created an account; the transaction reply is filled in when it arrives
Resolved(p, m, text, k, created) ==
    [page |-> p, empty |-> FALSE, metaAccountNumber |-> m.accountNumber,
     textAccountNumber |-> extractAccountNumberFromText(text), resolved |-> k,
     created |-> created, txnDone |-> FALSE, isArray |-> FALSE, rows |-> <<>>]

\* the helper function has not been applied
NotApplied == [done |-> FALSE]

-----------------------------------------------------------------------------
(* The web UI: appReducer and the state of startProcessing *)

Files == {"a.pdf", "b.pdf"}

Status(stage, progress) == [stage |-> stage, progress |-> progress]

\* const initialState: AppState
initialState ==
    [uploadedFile |-> null, processingStatus |-> Status("idle", 0),
     results |-> null, error |-> null]

Act(type, payload) == [type |-> type, payload |-> payload]

\* function appReducer(state, action)
appReducer(s, action) ==
    CASE action.type = "SET_FILE" ->
            [s EXCEPT !.uploadedFile = action.payload, !.results = null,
                      !.error = null, !.processingStatus = Status("idle", 0)]
      [] action.type = "SET_PROCESSING_STATUS" ->
            [s EXCEPT !.processingStatus = action.payload,
                      !.error = IF action.payload.stage = "uploading"
                                THEN null ELSE s.error]
      [] action.type = "SET_RESULTS" ->
            [s EXCEPT !.results = action.payload, !.error = null,
                      !.processingStatus = Status("complete", 100)]
      [] action.type = "SET_ERROR" ->
            [s EXCEPT !.error = action.payload,
                      !.processingStatus = Status("error", 0)]
      [] action.type = "CLEAR_RESULTS" ->
            [s EXCEPT !.results = null, !.processingStatus = Status("idle", 0)]
      [] action.type = "CLEAR_ERROR" ->
            [s EXCEPT !.error = null, !.processingStatus = Status("idle", 0)]
      [] action.type = "RESET_STATE" -> initialState
      [] OTHER -> s

\* the callback given to extractBankStatement: dispatch of "uploading" at progress
onProgress(s, progress) ==
    appReducer(s, Act("SET_PROCESSING_STATUS", Status("uploading", progress)))

\* export function isValidTransition(fromStage, toStage)
isValidTransition(fromStage, toStage) ==
    CASE fromStage = "idle" -> toStage \in {"uploading"}
      [] fromStage = "uploading" -> toStage \in {"processing", "error", "idle"}
      [] fromStage = "processing" -> toStage \in {"complete", "error", "idle"}
      [] fromStage = "complete" -> toStage \in {"idle"}
      [] fromStage = "error" -> toStage \in {"idle", "uploading"}
      [] OTHER -> FALSE

\* the results the service returns for a file, and the error of a failed run
ResultsOf(file) == "results of " \o file
ErrorOf(file) == "failed on " \o file
NoFileError == "No file selected for processing"

\* invocations of startProcessing that can overlap
RunIds == {1, 2}

\* options of withRetry
maxAttempts == 3

NoRun == [pc |-> "none", file |-> null, attempt |-> 0, sent |-> 0]

\* positions at which an invocation waits for an event; elsewhere it is running
AwaitPoints == {"none", "importing", "uploading", "uploaded", "process", "results"}

\* no invocation is in the middle of synchronous code
Quiescent == \A r \in RunIds : runs[r].pc \in AwaitPoints

\* loaded / total * 50 of an upload progress event
UploadSteps == {25}

UiInit ==
    /\ state = initialState
    /\ runs = [r \in RunIds |-> NoRun]

-----------------------------------------------------------------------------
(* The handler, continued *)

Init ==
    /\ pc = "start"
    /\ txnText = <<>>
    /\ hasFile \in BOOLEAN
    /\ pages = 0
    /\ i = 0
    /\ accounts = <<>>
    /\ activeAccountNumber = null
    /\ pageText = <<>>
    /\ meta = NoMeta
    /\ accountNumber = null
    /\ response = NoResponse
    /\ calls = <<>>
    /\ pageLog = <<>>
    /\ input = <<>>
    /\ output = NotApplied
    /\ UiInit

\* variant: the error is answered together with the accounts gathered so far
CatchWithPartialResult(err) ==
    /\ pc' = "sent"
    /\ response' = [ErrorBody(err) EXCEPT !.accounts = ObjectValues(accounts)]
    /\ pageText' = <<>>
    /\ txnText' = <<>>
    /\ meta' = NoMeta
    /\ accountNumber' = null
    /\ UNCHANGED <<hasFile, i, accounts, activeAccountNumber>>

\* variant: the error is dropped and the failed call is made again
CatchRetry(err) ==
    UNCHANGED <<pc, response, pageText, txnText, meta, accountNumber, hasFile, i,
                accounts, activeAccountNumber>>

\* the catch block: the error is answered and the handler ends; the constants of
\* the loop body are out of scope
Catch(err) ==
    /\ pc' = "sent"
    /\ response' = ErrorBody(err)
    /\ pageText' = <<>>
    /\ txnText' = <<>>
    /\ meta' = NoMeta
    /\ accountNumber' = null
    /\ UNCHANGED <<hasFile, i, accounts, activeAccountNumber>>

\* variant: the loop index is not incremented
EndIterationSamePage(accs) ==
    /\ i' = i
    /\ pageText' = <<>>
    /\ txnText' = <<>>
    /\ meta' = NoMeta
    /\ accountNumber' = null
    /\ IF i < pages
       THEN pc' = "ocr" /\ response' = response
       ELSE pc' = "sent" /\ response' = SuccessBody(accs)

\* variant: the loop index is incremented twice
EndIterationSkipPage(accs) ==
    /\ i' = i + 2
    /\ pageText' = <<>>
    /\ txnText' = <<>>
    /\ meta' = NoMeta
    /\ accountNumber' = null
    /\ IF i < pages
       THEN pc' = "ocr" /\ response' = response
       ELSE pc' = "sent" /\ response' = SuccessBody(accs)

\* variant: the handler returns after the last page without answering
EndIterationNoAnswer(accs) ==
    /\ i' = i + 1
    /\ pageText' = <<>>
    /\ txnText' = <<>>
    /\ meta' = NoMeta
    /\ accountNumber' = null
    /\ response' = response
    /\ pc' = IF i < pages THEN "ocr" ELSE "returned"

\* the end of an iteration: i++, then either the next page's OCR call or, after
\* the last page, the answer
EndIteration(accs) ==
    /\ i' = i + 1
    /\ pageText' = <<>>
    /\ txnText' = <<>>
    /\ meta' = NoMeta
    /\ accountNumber' = null
    /\ IF i < pages
       THEN pc' = "ocr" /\ response' = response
       ELSE pc' = "sent" /\ response' = SuccessBody(accs)

\* if (!req.file) return res.status(400).json(...)
FileMissing ==
    /\ pc = "start"
    /\ ~hasFile
    /\ pc' = "sent"
    /\ response' = FileMissingBody
    /\ UNCHANGED <<hasFile, pages, i, accounts, activeAccountNumber, pageText, meta,
                   accountNumber, calls, pageLog>>
    /\ UNCHANGED <<input, output, state, runs>>
    /\ UNCHANGED txnText

\* await splitPdfIntoPages(req.file.buffer) throws
SplitFails ==
    /\ pc = "start"
    /\ hasFile
    /\ Catch(Err("Failed to parse PDF document", "", 0))
    /\ UNCHANGED <<pages, calls, pageLog>>
    /\ UNCHANGED <<input, output, state, runs>>

\* await splitPdfIntoPages(req.file.buffer) returns the pages; the loop starts
Split ==
    /\ pc = "start"
    /\ hasFile
    /\ \E n \in 0..MaxPages :
        /\ pages' = n
        /\ i' = 1
        /\ IF n > 0
           THEN pc' = "ocr" /\ response' = response
           ELSE pc' = "sent" /\ response' = SuccessBody(accounts)
    /\ UNCHANGED <<hasFile, accounts, activeAccountNumber, pageText, meta,
                   accountNumber, calls, pageLog>>
    /\ UNCHANGED <<input, output, state, runs>>
    /\ UNCHANGED txnText

\* await axios.post(ocr.space) rejects: transport failure or timeout
OcrTransportFails ==
    /\ pc = "ocr"
    /\ calls' = Append(calls, Call("ocr", i))
    /\ Catch(Err("timeout of 60000ms exceeded", "", 0))
    /\ UNCHANGED <<pages, pageLog>>
    /\ UNCHANGED <<input, output, state, runs>>

\* the OCR service answers IsErroredOnProcessing
OcrProcessingFails ==
    /\ pc = "ocr"
    /\ calls' = Append(calls, Call("ocr", i))
    /\ Catch(OcrError(i))
    /\ UNCHANGED <<pages, pageLog>>
    /\ UNCHANGED <<input, output, state, runs>>

\* the OCR service answers with no usable text: if (!pageText) continue
OcrEmpty ==
    /\ pc = "ocr"
    /\ \E data \in OcrReplies :
        /\ IsFalsyText(PageTextOf(data))
        /\ calls' = Append(calls, Call("ocr", i))
        /\ pageLog' = Append(pageLog, Skipped(i))
        /\ EndIteration(accounts)
    /\ UNCHANGED <<hasFile, pages, accounts, activeAccountNumber>>
    /\ UNCHANGED <<input, output, state, runs>>

\* the OCR service answers with text: the metadata call is next
OcrText ==
    /\ pc = "ocr"
    /\ \E data \in OcrReplies :
        /\ ~IsFalsyText(PageTextOf(data))
        /\ pageText' = PageTextOf(data)
    /\ calls' = Append(calls, Call("ocr", i))
    /\ pc' = "meta"
    /\ UNCHANGED <<hasFile, pages, i, accounts, activeAccountNumber, meta,
                   accountNumber, response, pageLog>>
    /\ UNCHANGED <<input, output, state, runs>>
    /\ UNCHANGED txnText

\* await callLLM(metadata prompt) or parseLLMJSON throws
MetaFails ==
    /\ pc = "meta"
    /\ calls' = Append(calls, Call("meta", i))
    /\ \E kind \in LlmFailures : Catch(LlmError(kind, "Metadata", i))
    /\ UNCHANGED <<pages, pageLog>>
    /\ UNCHANGED <<input, output, state, runs>>

\* the metadata reply parses: the identifier is resolved, the account is created
\* when it is new, and the transaction block is cut out of the page text
Meta ==
    /\ pc = "meta"
    /\ calls' = Append(calls, Call("meta", i))
    /\ \E m \in MetaReplies, now \in TimeValues :
        LET k == ResolveAccountNumber(m, pageText, activeAccountNumber, now)
            accs == CreateIfAbsent(accounts, k, m)
        IN  /\ activeAccountNumber' = k
            /\ accounts' = accs
            /\ pageLog' = Append(pageLog,
                    Resolved(i, m, pageText, k, Len(accs) > Len(accounts)))
            /\ IF IsFalsyText(extractTransactionBlock(pageText))
               THEN EndIteration(accs)
               ELSE /\ txnText' = extractTransactionBlock(pageText)
                    /\ meta' = m
                    /\ accountNumber' = k
                    /\ pc' = "txn"
                    /\ UNCHANGED <<i, pageText, response>>
    /\ UNCHANGED <<hasFile, pages>>
    /\ UNCHANGED <<input, output, state, runs>>

\* await callLLM(transaction prompt) or parseLLMJSON throws
TxnFails ==
    /\ pc = "txn"
    /\ calls' = Append(calls, Call("txn", i))
    /\ \E kind \in LlmFailures : Catch(LlmError(kind, "Transactions", i))
    /\ UNCHANGED <<pages, pageLog>>
    /\ UNCHANGED <<input, output, state, runs>>

\* the transaction reply parses: its rows are pushed onto the resolved account
Txn ==
    /\ pc = "txn"
    /\ calls' = Append(calls, Call("txn", i))
    /\ \E txns \in TxnReplies(i) :
        LET accs == PushTransactions(accounts, accountNumber, txns)
        IN  /\ accounts' = accs
            /\ pageLog' = [pageLog EXCEPT ![Len(pageLog)] =
                              [@ EXCEPT !.txnDone = TRUE, !.isArray = txns.isArray,
                                        !.rows = txns.transactions]]
            /\ EndIteration(accs)
    /\ UNCHANGED <<hasFile, pages, activeAccountNumber>>
    /\ UNCHANGED <<input, output, state, runs>>

Next ==
    \/ FileMissing
    \/ SplitFails
    \/ Split
    \/ OcrTransportFails
    \/ OcrProcessingFails
    \/ OcrEmpty
    \/ OcrText
    \/ MetaFails
    \/ Meta
    \/ TxnFails
    \/ Txn

Spec == Init /\ [][Next]_vars

\* the same handler on documents of exactly three pages, the size of the
\* end-to-end scenario
SplitThreePages ==
    /\ pc = "start"
    /\ hasFile
    /\ pages' = 3
    /\ i' = 1
    /\ pc' = "ocr"
    /\ UNCHANGED <<hasFile, accounts, activeAccountNumber, pageText, meta,
                   accountNumber, response, calls, pageLog>>
    /\ UNCHANGED <<input, output, state, runs>>
    /\ UNCHANGED txnText

NextThreePages ==
    \/ FileMissing
    \/ SplitFails
    \/ SplitThreePages
    \/ OcrTransportFails
    \/ OcrProcessingFails
    \/ OcrEmpty
    \/ OcrText
    \/ MetaFails
    \/ Meta
    \/ TxnFails
    \/ Txn

SpecThreePages == Init /\ [][NextThreePages]_vars

\* every external call returns or times out, and the code between two awaits
\* runs: the handler keeps taking steps while it has one to take
SpecFair == Init /\ [][Next]_vars /\ WF_vars(Next)

-----------------------------------------------------------------------------
(* parseLLMJSON, on the characters of the reply *)

\* all sequences over S of length 0..n
SeqsUpTo(S, n) == UNION {[1..k -> S] : k \in 0..n}

Quote == "\""
Whitespace == {" ", "\n"}
Punctuation == {"{", "}", "[", "]", ",", ":"}
Digit == {"1"}

\* raw.indexOf(c), 0 when c does not occur
FirstIndexOf(raw, c) ==
    LET hits == {p \in 1..Len(raw) : raw[p] = c}
    IN  IF hits = {} THEN 0 ELSE CHOOSE p \in hits : \A q \in hits : p <= q

\* raw.lastIndexOf(c), 0 when c does not occur
LastIndexOf(raw, c) ==
    LET hits == {p \in 1..Len(raw) : raw[p] = c}
    IN  IF hits = {} THEN 0 ELSE CHOOSE p \in hits : \A q \in hits : p >= q

\* position of the first character at or after p that is outside the class
RECURSIVE SkipClass(_, _, _)
SkipClass(str, class, p) ==
    IF p <= Len(str) /\ str[p] \in class THEN SkipClass(str, class, p + 1) ELSE p

\* str.replace(/,\s*X/g, "X") for a closing character X, from position p on
RECURSIVE DropCommaBefore(_, _, _)
DropCommaBefore(str, close, p) ==
    IF p > Len(str) THEN <<>>
    ELSE LET q == SkipClass(str, Whitespace, p + 1)
         IN  IF str[p] = "," /\ q <= Len(str) /\ str[q] = close
             THEN <<close>> \o DropCommaBefore(str, close, q + 1)
             ELSE <<str[p]>> \o DropCommaBefore(str, close, p + 1)

\* str.replace(/[class]+/g, " "), from position p on
RECURSIVE CollapseRuns(_, _, _)
CollapseRuns(str, class, p) ==
    IF p > Len(str) THEN <<>>
    ELSE IF str[p] \in class
    THEN <<" ">> \o CollapseRuns(str, class, SkipClass(str, class, p))
    ELSE <<str[p]>> \o CollapseRuns(str, class, p + 1)

\* the four replacements applied to the slice, in order
Normalise(jsonStr) ==
    CollapseRuns(
        CollapseRuns(
            DropCommaBefore(DropCommaBefore(jsonStr, "}", 1), "]", 1),
            {"\n"}, 1),
        Whitespace, 1)

\* JSON.parse, first part: the tokens of the text. A string runs to the next
\* quote and holds no line break; a number is a run of digits; whitespace
\* separates tokens; any other character is a syntax error.
RECURSIVE Lex(_, _, _)
Lex(str, p, toks) ==
    IF p > Len(str) THEN [ok |-> TRUE, toks |-> toks]
    ELSE IF str[p] \in Whitespace THEN Lex(str, p + 1, toks)
    ELSE IF str[p] \in Punctuation
    THEN Lex(str, p + 1, Append(toks, Tok("p", <<str[p]>>)))
    ELSE IF str[p] \in Digit
    THEN LET q == SkipClass(str, Digit, p)
         IN  Lex(str, q, Append(toks, Tok("n", SubSeq(str, p, q - 1))))
    ELSE IF str[p] = Quote
    THEN LET closing == {q \in (p + 1)..Len(str) : str[q] = Quote}
         IN  IF closing = {} THEN [ok |-> FALSE, toks |-> <<>>]
             ELSE LET q == CHOOSE c \in closing : \A d \in closing : c <= d
                  IN  IF \E r \in (p + 1)..(q - 1) : str[r] = "\n"
                      THEN [ok |-> FALSE, toks |-> <<>>]
                      ELSE Lex(str, q + 1,
                               Append(toks, Tok("s", SubSeq(str, p + 1, q - 1))))
    ELSE [ok |-> FALSE, toks |-> <<>>]

IsPunct(toks, p, c) == p <= Len(toks) /\ toks[p] = Tok("p", <<c>>)

\* JSON.parse, second part: the grammar. Each operator returns the position
\* after what it has read, 0 on a syntax error.
RECURSIVE Value(_, _)
RECURSIVE Members(_, _)
RECURSIVE Elements(_, _)
Value(toks, p) ==
    IF p > Len(toks) THEN 0
    ELSE IF toks[p].t \in {"s", "n"} THEN p + 1
    ELSE IF IsPunct(toks, p, "{")
    THEN IF IsPunct(toks, p + 1, "}") THEN p + 2 ELSE Members(toks, p + 1)
    ELSE IF IsPunct(toks, p, "[")
    THEN IF IsPunct(toks, p + 1, "]") THEN p + 2 ELSE Elements(toks, p + 1)
    ELSE 0

Members(toks, p) ==
    IF p + 1 > Len(toks) \/ toks[p].t # "s" \/ ~IsPunct(toks, p + 1, ":") THEN 0
    ELSE LET r == Value(toks, p + 2)
         IN  IF r = 0 THEN 0
             ELSE IF IsPunct(toks, r, ",") THEN Members(toks, r + 1)
             ELSE IF IsPunct(toks, r, "}") THEN r + 1
             ELSE 0

Elements(toks, p) ==
    LET r == Value(toks, p)
    IN  IF r = 0 THEN 0
        ELSE IF IsPunct(toks, r, ",") THEN Elements(toks, r + 1)
        ELSE IF IsPunct(toks, r, "]") THEN r + 1
        ELSE 0

\* JSON.parse: the value a text denotes is given by its tokens
JSONparse(str) ==
    LET lexed == Lex(str, 1, <<>>)
    IN  IF lexed.ok /\ lexed.toks # <<>>
           /\ Value(lexed.toks, 1) = Len(lexed.toks) + 1
        THEN [ok |-> TRUE, value |-> lexed.toks]
        ELSE [ok |-> FALSE, value |-> <<>>]

Returned(value) ==
    [done |-> TRUE, ok |-> TRUE, error |-> "", value |-> value, parsed |-> TRUE]

Thrown(message, parsed) ==
    [done |-> TRUE, ok |-> FALSE, error |-> message, value |-> <<>>,
     parsed |-> parsed]

\* variant: only the opening brace is looked for
OpeningBraceMissing(start, end) == start = 0

\* start === -1 || end === -1
BraceMissing(start, end) == start = 0 \/ end = 0

\* parseLLMJSON(raw, label); `parsed` records whether JSON.parse was called
parseLLMJSON(raw) ==
    IF raw = <<>> THEN Thrown("empty response", FALSE)
    ELSE LET start == FirstIndexOf(raw, "{")
             end == LastIndexOf(raw, "}")
         IN  IF BraceMissing(start, end) THEN Thrown("invalid JSON", FALSE)
             ELSE LET res == JSONparse(Normalise(SubSeq(raw, start, end)))
                  IN  IF res.ok THEN Returned(res.value)
                      ELSE Thrown("invalid JSON - syntax error", TRUE)

\* the replies the function is applied to: a body between a prefix and a suffix;
\* `clean` is the body without its commas before a closing brace or bracket
Reply(before, body, after, clean) ==
    [before |-> before, body |-> body, after |-> after, clean |-> clean]

RawOf(reply) == reply.before \o reply.body \o reply.after

StringChars == {"a", " ", ",", "}"}
Str(chars) == <<Quote>> \o chars \o <<Quote>>
Gaps == {<<>>, <<" ">>, <<"\n", " ">>}

\* JSON values: strings of up to MaxStringLen characters, a number, arrays,
\* objects
JsonValues ==
    {Str(chars) : chars \in SeqsUpTo(StringChars, MaxStringLen)}
        \cup {<<"1">>, <<"[", "]">>, <<"[", "1", ",", "1", "]">>,
              <<"{", "}">>, <<"{">> \o Str(<<"b">>) \o <<":", "1", "}">>}

\* an object with one member
ObjectOf(v, gap) ==
    <<"{">> \o gap \o Str(<<"a">>) \o <<":">> \o gap \o v \o gap \o <<"}">>

\* the same object with a comma before its closing brace
DamagedObjectOf(v, gap) ==
    <<"{">> \o gap \o Str(<<"a">>) \o <<":">> \o gap \o v \o <<",">> \o gap
        \o <<"}">>

\* an array with a comma before its closing bracket, and the array without it
DamagedArray(gap) == <<"[", "1", ",">> \o gap \o <<"]">>
CleanArray == <<"[", "1", "]">>

Prefixes == {<<>>, <<"a", " ">>, <<"a", ":", "\n">>}
Suffixes == {<<>>, <<"\n", "a">>}

\* valid JSON objects in prose
WrappedReplies ==
    {Reply(b, ObjectOf(v, g), a, ObjectOf(v, g)) :
        b \in Prefixes, a \in Suffixes, v \in JsonValues, g \in Gaps}
        \cup {Reply(b, <<"{", "}">>, a, <<"{", "}">>) :
                 b \in Prefixes, a \in Suffixes}

\* objects and arrays with a comma before the closing character
DamagedReplies ==
    {Reply(<<>>, DamagedObjectOf(v, g), <<>>, ObjectOf(v, <<>>)) :
        v \in JsonValues, g \in Gaps}
        \cup {Reply(<<>>, ObjectOf(DamagedArray(g), <<>>), <<>>,
                    ObjectOf(CleanArray, <<>>)) : g \in Gaps}
        \cup {Reply(<<>>, DamagedObjectOf(DamagedArray(g), g), <<>>,
                    ObjectOf(CleanArray, <<>>)) : g \in Gaps}

\* short replies that are no JSON, braces in any position
LooseReplies ==
    {Reply(<<>>, body, <<>>, body) :
        body \in SeqsUpTo({"{", "}", "a", " "}, MaxRawLen)}

RawReplies == WrappedReplies \cup DamagedReplies \cup LooseReplies

\* the variables of the request handler, at rest
HandlerIdle ==
    /\ pc = "idle"
    /\ txnText = <<>>
    /\ hasFile = FALSE
    /\ pages = 0
    /\ i = 0
    /\ accounts = <<>>
    /\ activeAccountNumber = null
    /\ pageText = <<>>
    /\ meta = NoMeta
    /\ accountNumber = null
    /\ response = NoResponse
    /\ calls = <<>>
    /\ pageLog = <<>>

InitParse ==
    /\ HandlerIdle
    /\ input \in RawReplies
    /\ output = NotApplied
    /\ UiInit

\* const meta = parseLLMJSON(metaRaw, ...) / const txns = parseLLMJSON(txnRaw, ...)
ParseReply ==
    /\ ~output.done
    /\ output' = parseLLMJSON(RawOf(input))
    /\ UNCHANGED <<pc, hasFile, pages, i, accounts, activeAccountNumber, pageText,
                   meta, accountNumber, response, calls, pageLog, input>>
    /\ UNCHANGED txnText
    /\ UNCHANGED <<state, runs>>

NextParse == ParseReply

SpecParse == InitParse /\ [][NextParse]_vars

-----------------------------------------------------------------------------
(* The web UI: the handlers of AppContent and startProcessing *)

BackendIdle == HandlerIdle /\ input = <<>> /\ output = NotApplied

BackendUnchanged ==
    UNCHANGED <<pc, hasFile, pages, i, accounts, activeAccountNumber, pageText,
                txnText, meta, accountNumber, response, calls, pageLog, input,
                output>>

InitUi == BackendIdle /\ UiInit

\* handleFileSelect(file): a file is chosen or dropped, or the selection cleared
handleFileSelect ==
    /\ Quiescent
    /\ \E file \in Files \cup {null} :
           state' = appReducer(state, Act("SET_FILE", file))
    /\ UNCHANGED runs
    /\ BackendUnchanged

\* handleProcessFile: the Process File button, enabled with a file and while no
\* processing is shown; startProcessing begins with the import of the client
handleProcessFile ==
    /\ Quiescent
    /\ state.uploadedFile # null
    /\ state.processingStatus.stage \notin {"uploading", "processing"}
    /\ \E r \in RunIds :
        /\ runs[r].pc = "none"
        /\ runs' = [runs EXCEPT ![r] =
                       [pc |-> "importing", file |-> state.uploadedFile,
                        attempt |-> 1, sent |-> 0]]
    /\ UNCHANGED state
    /\ BackendUnchanged

\* startProcessing called without a file
startWithoutFile ==
    /\ Quiescent
    /\ state.uploadedFile = null
    /\ state' = appReducer(state, Act("SET_ERROR", NoFileError))
    /\ UNCHANGED runs
    /\ BackendUnchanged

\* the import has resolved: "uploading" at 0, then the upload request is sent
BeginUpload(r) ==
    /\ Quiescent
    /\ runs[r].pc = "importing"
    /\ state' = onProgress(state, 0)
    /\ runs' = [runs EXCEPT ![r].pc = "uploading"]
    /\ BackendUnchanged

\* xhr.upload "progress"
UploadProgress(r) ==
    /\ Quiescent
    /\ runs[r].pc = "uploading"
    /\ \E p \in UploadSteps :
        /\ p > runs[r].sent
        /\ state' = onProgress(state, p)
        /\ runs' = [runs EXCEPT ![r].sent = p]
    /\ BackendUnchanged

\* xhr.upload "load"
UploadLoad(r) ==
    /\ Quiescent
    /\ runs[r].pc = "uploading"
    /\ state' = onProgress(state, 50)
    /\ runs' = [runs EXCEPT ![r].pc = "uploaded", ![r].sent = 50]
    /\ BackendUnchanged

\* xhr "load" with a 2xx status: uploadFile resolves, onProgress(60), and the
\* processing request is sent
UploadResponse(r) ==
    /\ Quiescent
    /\ runs[r].pc = "uploaded"
    /\ state' = onProgress(state, 60)
    /\ runs' = [runs EXCEPT ![r].pc = "process"]
    /\ BackendUnchanged

\* processFile resolves: onProgress(80), onProgress(90), the results are asked for
ProcessDone(r) ==
    /\ Quiescent
    /\ runs[r].pc = "process"
    /\ state' = onProgress(onProgress(state, 80), 90)
    /\ runs' = [runs EXCEPT ![r].pc = "results"]
    /\ BackendUnchanged

\* getResults resolves: onProgress(100); extractBankStatement returns
ResultsDone(r) ==
    /\ Quiescent
    /\ runs[r].pc = "results"
    /\ state' = onProgress(state, 100)
    /\ runs' = [runs EXCEPT ![r].pc = "switching"]
    /\ BackendUnchanged

\* withRetry has returned the result: dispatch of "processing" at 90
SwitchToProcessing(r) ==
    /\ runs[r].pc = "switching"
    /\ state' = appReducer(state,
                    Act("SET_PROCESSING_STATUS", Status("processing", 90)))
    /\ runs' = [runs EXCEPT ![r].pc = "finishing"]
    /\ BackendUnchanged

\* the warnings allow the display: SET_RESULTS
FinishWithResults(r) ==
    /\ runs[r].pc = "finishing"
    /\ state' = appReducer(state, Act("SET_RESULTS", ResultsOf(runs[r].file)))
    /\ runs' = [runs EXCEPT ![r] = NoRun]
    /\ BackendUnchanged

\* too many critical errors: the throw lands in the catch, SET_ERROR
FinishWithError(r) ==
    /\ runs[r].pc = "finishing"
    /\ state' = appReducer(state, Act("SET_ERROR", ErrorOf(runs[r].file)))
    /\ runs' = [runs EXCEPT ![r] = NoRun]
    /\ BackendUnchanged

\* a request of the attempt fails and withRetry starts the next attempt: the retry
\* callback dispatches "uploading" at 0
AttemptRetried(r) ==
    /\ Quiescent
    /\ runs[r].pc \in {"uploading", "uploaded", "process", "results"}
    /\ runs[r].attempt < maxAttempts
    /\ state' = onProgress(state, 0)
    /\ runs' = [runs EXCEPT ![r].pc = "uploading", ![r].sent = 0,
                            ![r].attempt = @ + 1]
    /\ BackendUnchanged

\* a request fails and withRetry gives up: throw retryResult.error, SET_ERROR
AttemptFailed(r) ==
    /\ Quiescent
    /\ runs[r].pc \in {"uploading", "uploaded", "process", "results"}
    /\ state' = appReducer(state, Act("SET_ERROR", ErrorOf(runs[r].file)))
    /\ runs' = [runs EXCEPT ![r] = NoRun]
    /\ BackendUnchanged

\* handleClearResults
handleClearResults ==
    /\ Quiescent
    /\ state' = appReducer(state, Act("CLEAR_RESULTS", null))
    /\ UNCHANGED runs
    /\ BackendUnchanged

\* handleClearError
handleClearError ==
    /\ Quiescent
    /\ state' = appReducer(state, Act("CLEAR_ERROR", null))
    /\ UNCHANGED runs
    /\ BackendUnchanged

\* cancelProcessing: resetToIdle while uploading or processing
cancelProcessing ==
    /\ Quiescent
    /\ state.processingStatus.stage \in {"uploading", "processing"}
    /\ state' = appReducer(
                    appReducer(state,
                        Act("SET_PROCESSING_STATUS", Status("idle", 0))),
                    Act("CLEAR_ERROR", null))
    /\ UNCHANGED runs
    /\ BackendUnchanged

NextUi ==
    \/ handleFileSelect
    \/ handleProcessFile
    \/ startWithoutFile
    \/ handleClearResults
    \/ handleClearError
    \/ cancelProcessing
    \/ \E r \in RunIds : BeginUpload(r)
    \/ \E r \in RunIds : UploadProgress(r)
    \/ \E r \in RunIds : UploadLoad(r)
    \/ \E r \in RunIds : UploadResponse(r)
    \/ \E r \in RunIds : ProcessDone(r)
    \/ \E r \in RunIds : ResultsDone(r)
    \/ \E r \in RunIds : SwitchToProcessing(r)
    \/ \E r \in RunIds : FinishWithResults(r)
    \/ \E r \in RunIds : FinishWithError(r)
    \/ \E r \in RunIds : AttemptRetried(r)
    \/ \E r \in RunIds : AttemptFailed(r)

SpecUi == InitUi /\ [][NextUi]_vars

-----------------------------------------------------------------------------
(* callLLM and extractLLMText, on the outcomes of the request *)

\* what axios.post(LLM_URL) settles with: an error code when it rejects, else
\* the fields of res.data
Settled(code, resp, choices) ==
    [code |-> code, response |-> resp, choices |-> choices]

ReplyTexts == {"", "{\"accountNumber\":\"999\"}", "no json"}

\* res.data.choices is missing
NoChoices == [present |-> FALSE, items |-> <<>>]

\* res.data.choices: empty, or one choice with or without text
ChoicesShapes ==
    {[present |-> TRUE, items |-> <<>>]}
        \cup {[present |-> TRUE, items |-> <<[text |-> t]>>] :
                 t \in ReplyTexts \cup {undefined}}

Settlements ==
    {Settled("", r, c) : r \in ReplyTexts \cup {undefined},
                         c \in ChoicesShapes \cup {NoChoices}}
        \cup {Settled(code, undefined, NoChoices) :
                 code \in {"ECONNREFUSED", "ECONNABORTED"}}

\* res.data?.choices?.[0]?.text
FirstChoiceText(res) ==
    IF ~res.choices.present THEN undefined
    ELSE IF res.choices.items = <<>> THEN undefined
    ELSE res.choices.items[1].text

CallReturned(text) == [done |-> TRUE, ok |-> TRUE, text |-> text, error |-> NoErr]
CallThrown(err) == [done |-> TRUE, ok |-> FALSE, text |-> "", error |-> err]

\* extractLLMText(res), its throw already as callLLM's catch rethrows it
extractLLMText(res, label, p) ==
    IF Truthy(res.response) THEN CallReturned(res.response)
    ELSE IF Truthy(FirstChoiceText(res)) THEN CallReturned(FirstChoiceText(res))
    ELSE CallThrown(LlmError("unknownFormat", label, p))

\* callLLM(prompt, `${label} page ${p}`)
callLLM(res, label, p) ==
    IF res.code = "ECONNREFUSED" THEN CallThrown(LlmError("refused", label, p))
    ELSE IF res.code # "" THEN CallThrown(LlmError("failed", label, p))
    ELSE extractLLMText(res, label, p)

CallInputs ==
    {[res |-> res, label |-> label, page |-> p] :
        res \in Settlements, label \in {"Metadata", "Transactions"},
        p \in 1..MaxPages}

InitCall ==
    /\ HandlerIdle
    /\ input \in CallInputs
    /\ output = NotApplied
    /\ UiInit

\* const metaRaw = await callLLM(...) / const txnRaw = await callLLM(...)
CallService ==
    /\ ~output.done
    /\ output' = callLLM(input.res, input.label, input.page)
    /\ UNCHANGED <<pc, hasFile, pages, i, accounts, activeAccountNumber, pageText,
                   txnText, meta, accountNumber, response, calls, pageLog, input>>
    /\ UNCHANGED <<state, runs>>

NextCall == CallService

SpecCall == InitCall /\ [][NextCall]_vars

-----------------------------------------------------------------------------
(* extractTransactionBlock, on page texts with several headers *)

\* page texts of up to MaxTextLen tokens: a word and three section headers
WindowTokens ==
    {Word, Header, Tok("header", "TRANSACTIONS"), Tok("header", "Value Date")}

WindowTexts == SeqsUpTo(WindowTokens, MaxTextLen)

InitWindow ==
    /\ HandlerIdle
    /\ input \in WindowTexts
    /\ output = NotApplied
    /\ UiInit

\* const txnText = extractTransactionBlock(pageText)
CutBlock ==
    /\ ~output.done
    /\ output' = [done |-> TRUE, value |-> extractTransactionBlock(input)]
    /\ UNCHANGED <<pc, hasFile, pages, i, accounts, activeAccountNumber, pageText,
                   meta, accountNumber, response, calls, pageLog, input>>
    /\ UNCHANGED txnText
    /\ UNCHANGED <<state, runs>>

NextWindow == CutBlock

SpecWindow == InitWindow /\ [][NextWindow]_vars

-----------------------------------------------------------------------------
(* Vocabulary of the properties *)

\* the run completed and answered with a result
Completed == pc = "sent" /\ response.success

\* the run was aborted by an error
Aborted == pc = "sent" /\ response.status = 500

\* number of times row r stands in the transaction list txs
Occurrences(txs, r) == Cardinality({n \in 1..Len(txs) : txs[n] = r})

\* s is a prefix of t
IsPrefix(s, t) == Len(s) <= Len(t) /\ SubSeq(t, 1, Len(s)) = s

\* positions of the history entries of the pages that had text
TextPages == {n \in 1..Len(pageLog) : ~pageLog[n].empty}

\* identifier resolved for the page with text that precedes position n, if any
RECURSIVE PreviousIdentifier(_)
PreviousIdentifier(n) ==
    IF n <= 1 THEN null
    ELSE IF ~pageLog[n - 1].empty THEN pageLog[n - 1].resolved
    ELSE PreviousIdentifier(n - 1)

\* the metadata fields of an account, without its transactions
MetadataOf(a) ==
    <<a.accountNumber, a.bankName, a.accountHolderName, a.accountType, a.currency,
      a.statementStartDate, a.statementEndDate>>

-----------------------------------------------------------------------------
(* C1 *)

\* C1: in a run that completes, every page with text maps to exactly one account of
\* the result, the one keyed by its resolved identifier, and each row extracted
\* from the page stands exactly once in that account's list and in no other list.
C1_ExactlyOneAccount ==
    Completed =>
        \A n \in TextPages :
            LET e == pageLog[n]
                res == response.accounts
            IN  /\ Cardinality({a \in 1..Len(res) :
                                    res[a].accountNumber = e.resolved}) = 1
                /\ \A j \in 1..Len(e.rows), a \in 1..Len(res) :
                       Occurrences(res[a].transactions, e.rows[j]) =
                           IF res[a].accountNumber = e.resolved THEN 1 ELSE 0

\* a completed run with two accounts, the second of which received rows
C1_Witness ==
    /\ Completed
    /\ Len(response.accounts) = 2
    /\ \E n \in TextPages :
           /\ pageLog[n].resolved = accounts[2].accountNumber
           /\ Len(pageLog[n].rows) = 2

-----------------------------------------------------------------------------
(* C2 *)

\* a metadata or transaction call is being added to the call history
ExtractionCallAdded ==
    /\ Len(calls') = Len(calls) + 1
    /\ calls'[Len(calls')].kind \in {"meta", "txn"}

\* C2: an extraction call is only ever made for a page whose text is not empty; the
\* step that finds a page's text empty adds the OCR call and nothing else to the
\* call history and leaves the accounts as they were; and no extraction call in
\* the history belongs to a page recorded as empty.
C2_EmptyPageSkipped ==
    /\ [][ExtractionCallAdded => pageText # <<>>]_vars
    /\ [][(pc = "ocr" /\ pc' # "meta")
            => (accounts' = accounts /\ calls' = Append(calls, Call("ocr", i)))]_vars
    /\ [](\A n \in 1..Len(pageLog) : pageLog[n].empty =>
            \A c \in 1..Len(calls) :
                calls[c].page = pageLog[n].page => calls[c].kind = "ocr")

\* an empty page that followed a page which had created an account
C2_Witness ==
    /\ Len(pageLog) >= 2
    /\ pageLog[Len(pageLog)].empty
    /\ ~pageLog[Len(pageLog) - 1].empty
    /\ Len(accounts) >= 1

-----------------------------------------------------------------------------
(* C3 *)

\* the temporary identifiers the last-resort fallback can produce
IsSynthetic(k) ==
    \E f \in MetaFields, now \in TimeValues : k = SyntheticId(MetaOf("", f), now)

\* C3: the identifier of a page with text is the account number of its metadata
\* if that is non-empty; else the one matched in its text if there is a match;
\* else the identifier of the preceding page with text if there is one; else a
\* temporary identifier.
C3_ResolutionPriority ==
    \A n \in TextPages :
        LET e == pageLog[n]
            prev == PreviousIdentifier(n)
        IN  IF Truthy(e.metaAccountNumber) THEN e.resolved = e.metaAccountNumber
            ELSE IF Truthy(e.textAccountNumber) THEN e.resolved = e.textAccountNumber
            ELSE IF Truthy(prev) THEN e.resolved = prev
            ELSE IsSynthetic(e.resolved)

\* the metadata has decided a page over a text match, and the text match has
\* decided the next page over the identifier carried from the first
C3_Witness ==
    /\ \E n \in TextPages :
           /\ Truthy(pageLog[n].metaAccountNumber)
           /\ Truthy(pageLog[n].textAccountNumber)
           /\ pageLog[n].metaAccountNumber # pageLog[n].textAccountNumber
    /\ \E n \in TextPages :
           /\ ~Truthy(pageLog[n].metaAccountNumber)
           /\ Truthy(pageLog[n].textAccountNumber)
           /\ Truthy(PreviousIdentifier(n))
           /\ PreviousIdentifier(n) # pageLog[n].textAccountNumber

-----------------------------------------------------------------------------
(* C4 *)

\* the account keyed k
AccountOf(accs, k) == accs[AccountAt(accs, k)]

\* position n holds a page with text that has no account number of its own and
\* directly follows a page with text
IsContinuation(n) ==
    /\ n >= 2
    /\ ~pageLog[n - 1].empty
    /\ ~pageLog[n].empty
    /\ ~Truthy(pageLog[n].metaAccountNumber)
    /\ ~Truthy(pageLog[n].textAccountNumber)

\* C4: a page with text that has no account number in its metadata nor in its text
\* and follows a page resolved to k resolves to k, creates no account, and its
\* rows stand in the list of account k.
C4_Continuation ==
    \A n \in 1..Len(pageLog) :
        IsContinuation(n) =>
            LET k == pageLog[n - 1].resolved
                e == pageLog[n]
            IN  /\ e.resolved = k
                /\ ~e.created
                /\ HasAccount(accounts, k)
                /\ \A j \in 1..Len(e.rows) :
                       Occurrences(AccountOf(accounts, k).transactions, e.rows[j]) = 1

\* a continuation page whose rows have been pushed
C4_Witness ==
    \E n \in 1..Len(pageLog) :
        /\ IsContinuation(n)
        /\ pageLog[n].txnDone
        /\ Len(pageLog[n].rows) >= 1

-----------------------------------------------------------------------------
(* C5 *)

\* C5: no step changes a metadata field of an account that exists, whatever
\* metadata the page extracted; all a step does to an existing account is to
\* extend its transaction list.
C5_FirstPageWins ==
    [][\A n \in 1..Len(accounts) :
          /\ n <= Len(accounts')
          /\ MetadataOf(accounts'[n]) = MetadataOf(accounts[n])
          /\ IsPrefix(accounts[n].transactions, accounts'[n].transactions)]_vars

\* a page resolved to an account that exists, with metadata that differs from
\* the stored one in every field
C5_Witness ==
    /\ pc = "txn"
    /\ ~pageLog[Len(pageLog)].created
    /\ LET a == AccountOf(accounts, accountNumber)
           b == NewAccount(accountNumber, meta)
       IN  /\ a.bankName # b.bankName
           /\ a.accountHolderName # b.accountHolderName
           /\ a.accountType # b.accountType
           /\ a.currency # b.currency
           /\ a.statementStartDate # b.statementStartDate
           /\ a.statementEndDate # b.statementEndDate

-----------------------------------------------------------------------------
(* C6 *)

\* the rows the extractor returned for the pages resolved to k among the first n
\* pages, page after page
RECURSIVE RowsFor(_, _)
RowsFor(k, n) ==
    IF n = 0 THEN <<>>
    ELSE RowsFor(k, n - 1)
            \o (IF ~pageLog[n].empty /\ pageLog[n].resolved = k
                THEN pageLog[n].rows ELSE <<>>)

\* C6: in the result, the transaction list of an account is the concatenation, in
\* ascending page index, of the rows returned for the pages resolved to it.
C6_DocumentOrder ==
    Completed =>
        /\ Len(pageLog) = pages
        /\ \A n \in 1..Len(pageLog) : pageLog[n].page = n
        /\ \A a \in 1..Len(response.accounts) :
               response.accounts[a].transactions =
                   RowsFor(response.accounts[a].accountNumber, Len(pageLog))

\* an account fed by the first and the last page, with a page of another account
\* in between
C6_Witness ==
    /\ Completed
    /\ Len(pageLog) = 3
    /\ pageLog[1].resolved = pageLog[3].resolved
    /\ ~pageLog[2].empty /\ pageLog[2].resolved # pageLog[1].resolved
    /\ \A n \in 1..3 : Len(pageLog[n].rows) = 2

-----------------------------------------------------------------------------
(* C7 *)

ResolvedIdentifiers == {pageLog[n].resolved : n \in TextPages}

NoSharedAccountNumber(accs) ==
    \A a, b \in 1..Len(accs) : accs[a].accountNumber = accs[b].accountNumber => a = b

\* C7: no step removes an account or changes the identifier an account is keyed
\* by; there is one account per resolved identifier, created by exactly one page;
\* and the result of a completed run holds exactly one account per identifier
\* resolved by some page, no two with the same accountNumber.
C7_AccountsOnlyGrow ==
    /\ [][\A n \in 1..Len(accounts) :
             /\ n <= Len(accounts')
             /\ accounts'[n].accountNumber = accounts[n].accountNumber]_vars
    /\ [](/\ NoSharedAccountNumber(accounts)
          /\ AccountKeys(accounts) = ResolvedIdentifiers
          /\ \A k \in ResolvedIdentifiers :
                 Cardinality({n \in TextPages :
                     pageLog[n].resolved = k /\ pageLog[n].created}) = 1)
    /\ [](Completed =>
            /\ NoSharedAccountNumber(response.accounts)
            /\ AccountKeys(response.accounts) = ResolvedIdentifiers
            /\ Len(response.accounts) = Cardinality(ResolvedIdentifiers))

\* a completed run of three pages with two identifiers, one resolved twice
C7_Witness ==
    /\ Completed
    /\ Cardinality(TextPages) = 3
    /\ Cardinality(ResolvedIdentifiers) = 2

-----------------------------------------------------------------------------
(* C8 *)

\* C8: every step leaves each account in place with a transaction list that the
\* list before the step is a prefix of.
C8_AppendOnly ==
    [][\A k \in AccountKeys(accounts) :
          /\ HasAccount(accounts', k)
          /\ IsPrefix(AccountOf(accounts, k).transactions,
                      AccountOf(accounts', k).transactions)]_vars

\* rows are being pushed onto a list that already holds rows
C8_Witness ==
    /\ pc = "txn"
    /\ Len(AccountOf(accounts, accountNumber).transactions) >= 1

-----------------------------------------------------------------------------
(* C9 *)

\* the document of the end-to-end scenario: page 1 with account number "999" in
\* its metadata and two rows, page 2 with no account number and one row, page 3
\* with empty text
EndToEndScenario ==
    /\ Completed
    /\ pages = 3
    /\ Len(pageLog) = 3
    /\ ~pageLog[1].empty
    /\ pageLog[1].metaAccountNumber = "999"
    /\ pageLog[1].isArray /\ Len(pageLog[1].rows) = 2
    /\ ~pageLog[2].empty
    /\ ~Truthy(pageLog[2].metaAccountNumber)
    /\ ~Truthy(pageLog[2].textAccountNumber)
    /\ pageLog[2].isArray /\ Len(pageLog[2].rows) = 1
    /\ pageLog[3].empty

\* C9: the result of the end-to-end scenario is one account, keyed "999", whose
\* transactions are the two rows of page 1 followed by the row of page 2.
C9_EndToEnd ==
    EndToEndScenario =>
        /\ Len(response.accounts) = 1
        /\ response.accounts[1].accountNumber = "999"
        /\ response.accounts[1].transactions = RowsOf(1, 2) \o RowsOf(2, 1)

\* the scenario has run, its first page also carrying an account number in its text
C9_Witness ==
    /\ EndToEndScenario
    /\ Truthy(pageLog[1].textAccountNumber)

-----------------------------------------------------------------------------
(* C10 *)

\* C10: a run aborted by a failure answers with an error and with no result, none
\* of the accounts accumulated so far included; no call in its history is for a
\* page after the one that failed; a result is answered only when every page
\* has gone through all of its calls; and the handler takes no step once it has
\* answered.
C10_FatalOnFirstError ==
    /\ [](Aborted =>
            /\ ~response.success
            /\ response.accounts = <<>>
            /\ response.error # NoErr
            /\ \A c \in 1..Len(calls) : calls[c].page <= i)
    /\ [](Completed =>
            /\ Len(pageLog) = pages
            /\ \A n \in TextPages : pageLog[n].txnDone)
    /\ [][pc # "sent"]_vars

\* a run aborted with accounts accumulated and pages left
C10_Witness ==
    /\ Aborted
    /\ Len(accounts) >= 1
    /\ i < pages

-----------------------------------------------------------------------------
(* C11 *)

\* the stage an error message names: the prompt label of an extraction call, or
\* the OCR stage of "OCR failed on page ..."
StageOf(err) ==
    CASE err.label = "Metadata" -> "meta"
      [] err.label = "Transactions" -> "txn"
      [] err.text = "OCR failed" -> "ocr"
      [] OTHER -> "none"

\* the error names the page and the stage of the call c
Annotated(err, c) == err.page = c.page /\ StageOf(err) = c.kind

\* the messages that carry neither a page index nor a stage: a rejected OCR
\* request and a refused connection to the extraction service
BareMessages ==
    {"timeout of 60000ms exceeded",
     "LLM server not running. Start Ollama with: ollama serve"}

\* C11 as stated: whatever call failure aborts a run, the error answered names the
\* page index and the stage of the call that failed.
C11_AlwaysAnnotated ==
    (Aborted /\ calls # <<>>) => Annotated(response.error, calls[Len(calls)])

\* C11 amended: the error answered is the one of the first failure, the only
\* answer the handler gives; it names the page and the stage of the failed call
\* unless the failure is a rejected OCR request or a refused connection to the
\* extraction service, whose messages name neither.
C11_AnnotatedUnlessBare ==
    /\ [](Aborted /\ calls # <<>> =>
            LET err == response.error
            IN  IF err.text \in BareMessages
                THEN err.page = 0 /\ StageOf(err) = "none"
                ELSE Annotated(err, calls[Len(calls)]))
    /\ [][response' # response => (response = NoResponse /\ pc' = "sent")]_vars

\* the transaction extraction of the second page failed and the error names it
C11_Witness ==
    /\ Aborted
    /\ response.error.label = "Transactions"
    /\ response.error.page = 2
    /\ response.error.text = "LLM call failed"

-----------------------------------------------------------------------------
(* C12 *)

\* order of the handler's positions within a page
Rank(p) ==
    CASE p = "start" -> 0
      [] p = "ocr" -> 1
      [] p = "meta" -> 2
      [] p = "txn" -> 3
      [] OTHER -> 4

\* a page with text is being resolved in this step
ResolutionStep ==
    /\ Len(pageLog') = Len(pageLog) + 1
    /\ ~pageLog'[Len(pageLog')].empty

\* rows are being added to some account in this step
AggregationStep ==
    \E n \in 1..Len(accounts) :
        n <= Len(accounts') /\ accounts'[n].transactions # accounts[n].transactions

\* C12 as stated: a page is resolved, and its account created, only once its
\* transaction extraction has completed as well.
C12_ResolvedAfterBothExtractions ==
    \A n \in TextPages :
        \E c \in 1..Len(calls) : calls[c] = Call("txn", pageLog[n].page)

\* C12 amended: a page is resolved, and its account created, in the step that
\* completes its metadata extraction and before its transaction extraction is
\* called; rows are aggregated in the step that completes the transaction
\* extraction of a resolved page; and the handler never returns to an earlier
\* position of a page or to an earlier page.
C12_ResolvedBetweenExtractions ==
    /\ [][(ResolutionStep \/ Len(accounts') > Len(accounts)
             \/ activeAccountNumber' # activeAccountNumber)
            => /\ ResolutionStep
               /\ pc = "meta"
               /\ calls' = Append(calls, Call("meta", i))
               /\ \A c \in 1..Len(calls) : calls[c] # Call("txn", i)]_vars
    /\ [][AggregationStep
            => /\ pc = "txn"
               /\ calls' = Append(calls, Call("txn", i))
               /\ pageLog # <<>>
               /\ pageLog[Len(pageLog)].page = i
               /\ ~pageLog[Len(pageLog)].empty]_vars
    /\ [][i' > i \/ (i' = i /\ Rank(pc') > Rank(pc))]_vars

\* the second page has been resolved to a new account and its transaction
\* extraction has not been called
C12_Witness ==
    /\ pc = "txn"
    /\ i = 2
    /\ Len(accounts) = 2
    /\ pageLog[Len(pageLog)].created
    /\ calls[Len(calls)] = Call("meta", 2)

-----------------------------------------------------------------------------
(* C13 *)

\* the history entry of page p says its text was empty
WasSkipped(p) == \E n \in 1..Len(pageLog) : pageLog[n].page = p /\ pageLog[n].empty

CallRank(kind) ==
    CASE kind = "ocr" -> 1
      [] kind = "meta" -> 2
      [] OTHER -> 3

\* C13: the calls are made one after the other, each completed before the next;
\* the first is the OCR call of page 1; a call is followed either by the next
\* call of the same page or, when the page is done (its transaction call made,
\* or its text empty), by the OCR call of the page with the next index.
C13_StrictlySequential ==
    /\ calls # <<>> => calls[1] = Call("ocr", 1)
    /\ \A c \in 1..(Len(calls) - 1) :
           LET a == calls[c]
               b == calls[c + 1]
           IN  \/ b.page = a.page /\ CallRank(b.kind) = CallRank(a.kind) + 1
               \/ /\ b = Call("ocr", a.page + 1)
                  /\ a.kind = "txn" \/ (a.kind = "ocr" /\ WasSkipped(a.page))

\* two pages with text have gone through their three calls each
C13_Witness ==
    /\ Completed
    /\ Len(calls) = 6
    /\ calls[4] = Call("ocr", 2)

-----------------------------------------------------------------------------
(* C14 *)

\* C14: no call is made twice for a page; a step that makes a call either moves
\* the handler on, to the next call of the page or to the next page, or ends the
\* run with the error of that call; and a run that ends with a result has made
\* one OCR call per page and one metadata and one transaction call per page with
\* text, no more.
C14_NoRetry ==
    /\ [](\A c, d \in 1..Len(calls) : calls[c] = calls[d] => c = d)
    /\ [][Len(calls') > Len(calls) =>
            \/ Aborted' /\ response'.error # NoErr
            \/ ~Aborted' /\ (i' > i \/ (i' = i /\ Rank(pc') > Rank(pc)))]_vars
    /\ [](Completed => Len(calls) = pages + 2 * Cardinality(TextPages))

\* the metadata call of the second page failed after three calls had succeeded
C14_Witness ==
    /\ Aborted
    /\ Len(calls) = 5
    /\ calls[5] = Call("meta", 2)

-----------------------------------------------------------------------------
(* C15 *)

\* C15: every run ends with an answer; the answer is given once, in the step that
\* ends the run, and is either a result or an error; until then the page index
\* never goes back.
C15_OneOutcome ==
    /\ <>(pc = "sent")
    /\ [](pc = "sent" <=> response # NoResponse)
    /\ [](pc = "sent" =>
            \/ response.success /\ response.status = 200 /\ response.error = NoErr
            \/ /\ ~response.success
               /\ response.status \in {400, 500}
               /\ response.error # NoErr
               /\ response.accounts = <<>>)
    /\ [][response = NoResponse /\ i' >= i]_vars

\* a run over two pages has ended with a result
C15_Witness ==
    /\ Completed
    /\ pages = 2
    /\ i = 3

-----------------------------------------------------------------------------
(* C16 *)

\* the page at position n got its identifier from the last-resort fallback
FromFallback(n) ==
    /\ ~pageLog[n].empty
    /\ ~Truthy(pageLog[n].metaAccountNumber)
    /\ ~Truthy(pageLog[n].textAccountNumber)
    /\ ~Truthy(PreviousIdentifier(n))

\* C16: every resolved identifier is a non-empty string; an identifier made by the
\* fallback differs from the identifier of every page that did not inherit it:
\* only later pages without an account number of their own resolve to it.
C16_NonEmptyAndUnique ==
    \A n \in TextPages :
        /\ Truthy(pageLog[n].resolved)
        /\ FromFallback(n) =>
               \A m \in TextPages :
                   (m # n /\ pageLog[m].resolved = pageLog[n].resolved) =>
                       /\ m > n
                       /\ ~Truthy(pageLog[m].metaAccountNumber)
                       /\ ~Truthy(pageLog[m].textAccountNumber)

\* a page resolved by the fallback is followed by a page with an account number
C16_Witness ==
    /\ Len(pageLog) = 2
    /\ FromFallback(1)
    /\ ~pageLog[2].empty
    /\ Truthy(pageLog[2].metaAccountNumber)

-----------------------------------------------------------------------------
(* C17 *)

NoBrace(str) == \A p \in 1..Len(str) : str[p] \notin {"{", "}"}

\* the reply is a valid JSON object between a prefix and a suffix without braces
IsWrappedObject(reply) ==
    /\ JSONparse(reply.body).ok
    /\ reply.body[1] = "{"
    /\ NoBrace(reply.before)
    /\ NoBrace(reply.after)

\* C17: for a valid JSON object between a prefix and a suffix that hold no brace,
\* the extractor returns the object the JSON text denotes; in particular for the
\* JSON text alone.
C17_RecoversExactObject ==
    (output.done /\ IsWrappedObject(input)) =>
        /\ output.ok
        /\ output.value = JSONparse(input.body).value

-----------------------------------------------------------------------------
(* C18 *)

\* the reply is valid but for commas before a closing brace or bracket
IsDamagedObject(reply) ==
    /\ reply.body # reply.clean
    /\ ~JSONparse(reply.body).ok
    /\ JSONparse(reply.clean).ok

\* C18: for a JSON object text that is valid but for a comma, with or without
\* whitespace after it, before a closing brace or bracket, the extractor returns
\* the object the text denotes once those commas are removed.
C18_RepairsTrailingCommas ==
    (output.done /\ IsDamagedObject(input)) =>
        /\ output.ok
        /\ output.value = JSONparse(input.clean).value

-----------------------------------------------------------------------------
(* C19 *)

HasBothBraces(raw) == FirstIndexOf(raw, "{") # 0 /\ LastIndexOf(raw, "}") # 0

\* C19: a reply without an opening brace or without a closing brace is refused
\* with the empty-or-malformed-reply error and JSON.parse is not called; a reply
\* with both is handed to JSON.parse.
C19_ParsesOnlyWithBothBraces ==
    output.done =>
        /\ output.parsed <=> HasBothBraces(RawOf(input))
        /\ ~HasBothBraces(RawOf(input)) =>
               /\ ~output.ok
               /\ output.error \in {"empty response", "invalid JSON"}

\* a reply with an opening brace and no closing brace has been refused unparsed
C19_Witness ==
    /\ output.done
    /\ FirstIndexOf(RawOf(input), "{") # 0
    /\ LastIndexOf(RawOf(input), "}") = 0
    /\ output.error = "invalid JSON"
    /\ ~output.parsed

-----------------------------------------------------------------------------
(* C20 *)

\* the phrase of the list at position k occurs in the text
Occurs(text, k) == \E p \in 1..Len(text) : toLowerCase(text[p].v) = patterns[k]

\* the first phrase, in the order of the list, that occurs in the text
FirstMatching(text) ==
    CHOOSE k \in 1..Len(patterns) :
        Occurs(text, k) /\ \A j \in 1..(k - 1) : ~Occurs(text, j)

\* C20: when a phrase of the list occurs in the page text, whatever its case, the
\* block is the page text from the first occurrence of the first phrase of the
\* list that occurs, up to the end of the text.
C20_SuffixFromFirstMatch ==
    (output.done /\ \E k \in 1..Len(patterns) : Occurs(input, k)) =>
        \E p \in 1..Len(input) :
            /\ toLowerCase(input[p].v) = patterns[FirstMatching(input)]
            /\ \A q \in 1..(p - 1) :
                   toLowerCase(input[q].v) # patterns[FirstMatching(input)]
            /\ output.value = SubSeq(input, p, Len(input))

\* a text with two occurrences of a header after a word has been cut at the first
C20_Witness ==
    /\ output.done
    /\ input = <<Word, Tok("header", "TRANSACTIONS"), Tok("header", "TRANSACTIONS")>>
    /\ output.value = <<Tok("header", "TRANSACTIONS"), Tok("header", "TRANSACTIONS")>>

-----------------------------------------------------------------------------
(* C21 *)

\* no phrase of the list occurs in the text
NoHeader(text) == \A k \in 1..Len(patterns) : ~Occurs(text, k)

\* C21: for a page with text in which no phrase of the list occurs, the text the
\* transaction prompt is built from is the whole page text, never an empty text,
\* and the step that resolves the page leads to its transaction call, which is
\* the next call made.
C21_WholeTextFallback ==
    /\ [](pc = "txn" /\ NoHeader(pageText) =>
            txnText = pageText /\ ~IsFalsyText(txnText))
    /\ [][ResolutionStep /\ NoHeader(pageText) => pc' = "txn" /\ i' = i]_vars
    /\ [][pc = "txn" => calls' = Append(calls, Call("txn", i))]_vars

\* the second page has text without a header and its whole text is waiting to
\* be sent in the transaction prompt
C21_Witness ==
    /\ pc = "txn"
    /\ i = 2
    /\ NoHeader(pageText)
    /\ txnText = pageText
    /\ Len(txnText) > 1

-----------------------------------------------------------------------------
(* C22 *)

\* the reply has the field, whatever text it holds
HasResponse(res) == res.response # undefined
HasChoiceText(res) == FirstChoiceText(res) # undefined

UnknownFormatText == "LLM call failed: Unknown LLM response format"

\* the messages of the form `${label} LLM call failed: ${err.message}`
CallFailureTexts == {"LLM call failed", UnknownFormatText}

\* C22: for a request that is answered, the adapter returns the `response` field
\* when the reply has one, returns choices[0].text when the reply has that field
\* instead, and throws the unknown-reply-format error exactly when the reply has
\* neither field; that error is not reported as a failed call.
C22_AcceptsBothShapes ==
    (output.done /\ input.res.code = "") =>
        /\ HasResponse(input.res) =>
               output.ok /\ output.text = input.res.response
        /\ (~HasResponse(input.res) /\ HasChoiceText(input.res)) =>
               output.ok /\ output.text = FirstChoiceText(input.res)
        /\ (~output.ok /\ output.error.text = UnknownFormatText)
               <=> (~HasResponse(input.res) /\ ~HasChoiceText(input.res))
        /\ (~HasResponse(input.res) /\ ~HasChoiceText(input.res)) =>
               output.error.text \notin CallFailureTexts

-----------------------------------------------------------------------------
(* C23 *)

ServiceNotRunning == "LLM server not running. Start Ollama with: ollama serve"

\* C23: a call whose connection is refused throws the service-unavailable error
\* with the guidance that the service is not running; a call that fails in any
\* other way throws a call error that carries the page index and the prompt label
\* of the call.
C23_RefusedOrLabelled ==
    (output.done /\ input.res.code # "") =>
        /\ ~output.ok
        /\ IF input.res.code = "ECONNREFUSED"
           THEN output.error.text = ServiceNotRunning
           ELSE /\ output.error.text = "LLM call failed"
                /\ output.error.label = input.label
                /\ output.error.page = input.page

\* a refused metadata call of page 2 has thrown the guidance
C23_Witness ==
    /\ output.done
    /\ input.res.code = "ECONNREFUSED"
    /\ input.label = "Metadata"
    /\ input.page = 2
    /\ output.error = Err(ServiceNotRunning, "", 0)

-----------------------------------------------------------------------------
(* C24 *)

\* the first page with text
FirstTextPage == CHOOSE n \in TextPages : \A m \in TextPages : n <= m

\* C24: once a page is resolved the carried identifier is non-empty for the rest
\* of the run; the fallback makes an identifier for the first page with text
\* only; a later page with a temporary identifier has inherited it from the page
\* before; so all temporary identifiers of a run are the same one.
C24_FallbackOnlyFirst ==
    /\ TextPages # {} => Truthy(activeAccountNumber)
    /\ \A n \in TextPages :
           /\ FromFallback(n) => n = FirstTextPage
           /\ IsSynthetic(pageLog[n].resolved) =>
                  \/ n = FirstTextPage /\ FromFallback(n)
                  \/ /\ n # FirstTextPage
                     /\ pageLog[n].resolved = PreviousIdentifier(n)
                     /\ ~Truthy(pageLog[n].metaAccountNumber)
                     /\ ~Truthy(pageLog[n].textAccountNumber)
    /\ \A n, m \in TextPages :
           (IsSynthetic(pageLog[n].resolved) /\ IsSynthetic(pageLog[m].resolved))
               => pageLog[n].resolved = pageLog[m].resolved

\* the first page got a temporary identifier and the second page, without an
\* account number of its own, was resolved to it
C24_Witness ==
    /\ Len(pageLog) = 2
    /\ FromFallback(1)
    /\ IsSynthetic(pageLog[1].resolved)
    /\ ~pageLog[2].empty
    /\ ~Truthy(pageLog[2].metaAccountNumber)
    /\ ~Truthy(pageLog[2].textAccountNumber)
    /\ pageLog[2].resolved = pageLog[1].resolved

-----------------------------------------------------------------------------
(* C25 *)

\* the pages strictly between positions a and b were all skipped
SkippedBetween(a, b) == \A n \in (a + 1)..(b - 1) : pageLog[n].empty

\* C25: the step that skips a page leaves the carried identifier as it is; and
\* when a page with text is followed by skipped pages only and then by a page
\* with text that has no account number of its own, the latter is resolved to the
\* identifier of the former.
C25_ContinuationSpansSkipped ==
    /\ [][(Len(pageLog') = Len(pageLog) + 1 /\ pageLog'[Len(pageLog')].empty)
            => activeAccountNumber' = activeAccountNumber]_vars
    /\ [](\A a, b \in TextPages :
            (a < b /\ SkippedBetween(a, b)
               /\ ~Truthy(pageLog[b].metaAccountNumber)
               /\ ~Truthy(pageLog[b].textAccountNumber))
                => pageLog[b].resolved = pageLog[a].resolved)

\* a page with an account number, a skipped page, and a page without an account
\* number that was resolved to the account of the first
C25_Witness ==
    /\ Len(pageLog) = 3
    /\ ~pageLog[1].empty
    /\ Truthy(pageLog[1].textAccountNumber)
    /\ pageLog[2].empty
    /\ ~pageLog[3].empty
    /\ ~Truthy(pageLog[3].metaAccountNumber)
    /\ ~Truthy(pageLog[3].textAccountNumber)
    /\ pageLog[3].resolved = pageLog[1].resolved
    /\ ~pageLog[3].created

-----------------------------------------------------------------------------
(* C26 *)

\* C26: the accounts of the result are listed in the order in which they were
\* created, whatever their identifiers.
C26_CreationOrder ==
    Completed =>
        /\ Len(response.accounts) = Len(accounts)
        /\ \A n \in 1..Len(accounts) :
               response.accounts[n].accountNumber = accounts[n].accountNumber

-----------------------------------------------------------------------------
(* C27 *)

\* C27: in every state the UI reaches, an error is stored exactly when the
\* processing stage is "error".
C27_ErrorIffErrorStage ==
    (state.error # null) <=> (state.processingStatus.stage = "error")

-----------------------------------------------------------------------------
(* C28 *)

\* C28: every step of the UI that changes the processing stage changes it along
\* a transition that isValidTransition accepts.
C28_OnlyValidTransitions ==
    [][state'.processingStatus.stage # state.processingStatus.stage =>
         isValidTransition(state.processingStatus.stage,
                           state'.processingStatus.stage)]_vars

-----------------------------------------------------------------------------
(* C29 *)

\* C29: the results and the run error that are stored belong to the file that is
\* selected: what a run started for an earlier selection brings back is not
\* stored.
C29_ResultsOfSelectedFile ==
    \A file \in Files :
        (state.results = ResultsOf(file) \/ state.error = ErrorOf(file))
            => state.uploadedFile = file

-----------------------------------------------------------------------------
(* C30 *)

\* the invocation r, the only one under way, takes a step of an attempt that goes
\* on without failing
SuccessfulStep(r) ==
    /\ \A q \in RunIds \ {r} : runs[q].pc = "none"
    /\ runs[r].pc \in {"uploading", "uploaded", "process", "results",
                       "switching", "finishing"}
    /\ runs'[r] # runs[r]
    /\ runs'[r].attempt \in {runs[r].attempt, 0}
    /\ state'.processingStatus.stage # "error"

\* C30: after its first "uploading" status at 0, no step of a run that goes on
\* to its results lowers the stored progress.
C30_ProgressNeverDecreases ==
    [][(\E r \in RunIds : SuccessfulStep(r)) =>
         state'.processingStatus.progress >= state.processingStatus.progress]_vars

====
